---- MODULE Spec2Model ----
(***************************************************************************)
(* django_simple_profiler/functions.py: the two decorators                 *)
(* (django_profiler, django_profiler_full), the context manager            *)
(* (DjangoProfiler) and the report helpers, as a state machine over the    *)
(* host's query log (connection.queries), the process memory reading, the  *)
(* process CPU clock and the standard output.                              *)
(*                                                                         *)
(* Texts that the code slices or rewrites character by character (SQL) are *)
(* sequences of one-character strings; texts it only formats are strings.  *)
(* Durations are whole milliseconds (the host writes "%.3f" seconds).      *)
(***************************************************************************)
EXTENDS Integers, Sequences, FiniteSets, TLC

VARIABLES
    DEBUG,      \* settings.DEBUG
    queries,    \* connection.queries, the host's query log
    clock,      \* what time.process_time() returns now (ticks)
    stack,      \* the profiling scopes whose wrapped work is running, outermost first
    out,        \* standard output: the blocks printed so far
    last,       \* the outcome of the scope that finished most recently
    entered,    \* how many scopes have been entered
    size_in,    \* _convert_size: the argument, mantissa * 1024^exponent
    size_out    \* _convert_size: what the call produced

vars == <<DEBUG, queries, clock, stack, out, last, entered, size_in, size_out>>

scope_vars == <<DEBUG, queries, clock, stack, out, last, entered>>
size_vars == <<size_in, size_out>>

-----------------------------------------------------------------------------
(* Bounds of the model *)

MaxEntered == 2       \* scopes entered in one run (nested or one after another)
MaxSteps == 3         \* steps of the work that issue queries, in one run
MaxNestedSteps == 2   \* the same, in a run with nested scopes
LoopQueries == 10     \* queries one loop of the work issues
LongLen == 201        \* length of the long SQL text
MaxExp == 9           \* _convert_size inputs go up to MaxMantissa * 1024^MaxExp
MaxMantissa == 1100

-----------------------------------------------------------------------------
(* _convert_size *)

NoExc == ""

Returned(v) == [exc |-> NoExc, val |-> v]
Raised(e) == [exc |-> e, val |-> ""]

size_name == <<"B", "KB", "MB", "GB", "TB", "PB", "EB", "ZB", "YB">>

RECURSIVE floor_log_1024(_)
floor_log_1024(m) == IF m < 1024 THEN 0 ELSE 1 + floor_log_1024(m \div 1024)

RECURSIVE pow_1024(_)
pow_1024(x) == IF x = 0 THEN 1 ELSE 1024 * pow_1024(x - 1)

\* round(num / den, 2) in hundredths; den is a power of two, so the quotient is
\* exact in binary floating point and round() rounds its exact value, ties to even
round_2(num, den) ==
    LET h == (100 * num) \div den
        r == (100 * num) % den
    IN  IF 2 * r > den THEN h + 1
        ELSE IF 2 * r < den THEN h
        ELSE IF h % 2 = 0 THEN h ELSE h + 1

\* "{}".format(z) of the float z = h / 100: the shortest text that reads back
float_str(h) ==
    LET w == h \div 100
        f == h % 100
    IN  ToString(w) \o "." \o
        (IF f % 10 = 0 THEN ToString(f \div 10)
         ELSE IF f < 10 THEN "0" \o ToString(f)
         ELSE ToString(f))

\* _convert_size(m * 1024^e)
_convert_size_scaled(m, e) ==
    IF m = 0 THEN Returned("0B")
    ELSE IF m < 0 THEN Raised("ValueError")      \* math.log of a negative number
    ELSE LET x == floor_log_1024(m) + e
             z == round_2(m, pow_1024(floor_log_1024(m)))
         IN  IF x + 1 > Len(size_name) THEN Raised("IndexError")   \* size_name[x]
             ELSE Returned(float_str(z) \o " " \o size_name[x + 1])

_convert_size(size_bytes) == _convert_size_scaled(size_bytes, 0)

-----------------------------------------------------------------------------
(* Texts *)

Min(a, b) == IF a < b THEN a ELSE b

\* s[:n]
Prefix(s, n) == SubSeq(s, 1, Min(n, Len(s)))

\* s.replace('"', "")
replace_quote(s) == SelectSeq(s, LAMBDA c : c # "\"")

\* s.replace(",", ", ")
RECURSIVE replace_comma(_)
replace_comma(s) ==
    IF s = <<>> THEN <<>>
    ELSE IF Len(s) = 1 THEN (IF s[1] = "," THEN <<",", " ">> ELSE s)
    ELSE LET half == Len(s) \div 2
         IN  replace_comma(SubSeq(s, 1, half)) \o replace_comma(SubSeq(s, half + 1, Len(s)))

DigitValue(c) ==
    CASE c = "0" -> 0 [] c = "1" -> 1 [] c = "2" -> 2 [] c = "3" -> 3 [] c = "4" -> 4
      [] c = "5" -> 5 [] c = "6" -> 6 [] c = "7" -> 7 [] c = "8" -> 8 [] c = "9" -> 9

RECURSIVE DigitsValue(_)
DigitsValue(s) ==
    IF s = <<>> THEN 0 ELSE 10 * DigitsValue(SubSeq(s, 1, Len(s) - 1)) + DigitValue(s[Len(s)])

\* float(query["time"]) in milliseconds; the host writes the time as "%.3f" seconds
float_time(t) == DigitsValue(SelectSeq(t, LAMBDA c : c # "."))

\* "[{}] {}".format(query["time"], query["sql"].replace('"', "").replace(",", ", "))
prettify_sql(query) ==
    <<"[">> \o query.time \o <<"]", " ">> \o replace_comma(replace_quote(query.sql))

-----------------------------------------------------------------------------
(* Reading the query log *)

\* insert_by_key, but x goes before the elements whose key equals its own
RECURSIVE insert_by_key_ties_first(_, _)
insert_by_key_ties_first(s, x) ==
    IF s = <<>> THEN <<x>>
    ELSE IF (0 - x.time) <= (0 - Head(s).time) THEN <<x>> \o s
    ELSE <<Head(s)>> \o insert_by_key_ties_first(Tail(s), x)

\* the list with x put after every element whose key -time is not larger than x's
RECURSIVE insert_by_key(_, _)
insert_by_key(s, x) ==
    IF s = <<>> THEN <<x>>
    ELSE IF (0 - x.time) < (0 - Head(s).time) THEN <<x>> \o s
    ELSE <<Head(s)>> \o insert_by_key(Tail(s), x)

\* sorted(queries_list, key=lambda x: -x["time"]); sorted() is stable
RECURSIVE sorted_by_time(_)
sorted_by_time(xs) ==
    IF xs = <<>> THEN <<>>
    ELSE insert_by_key(sorted_by_time(SubSeq(xs, 1, Len(xs) - 1)), xs[Len(xs)])

\* if query["sql"]
has_sql(query) == query.sql # <<>>

\* the loop over connection.queries: the entries kept, in log order
build_queries_list(log) ==
    LET kept == SelectSeq(log, has_sql)
    IN  [i \in 1 .. Len(kept) |->
            [sql |-> prettify_sql(kept[i]) \o <<"\n">>, time |-> float_time(kept[i].time)]]

RECURSIVE sum_times(_)
sum_times(xs) == IF xs = <<>> THEN 0 ELSE xs[1].time + sum_times(Tail(xs))

\* total_queries_time += float(query["time"]) for the entries kept
total_queries_time_of(log) == sum_times(build_queries_list(log))

\* queries_count = len(connection.queries)
queries_count_of(log) == Len(log)

-----------------------------------------------------------------------------
(* The report *)

\* a title is the sequence of the texts it is formatted from
Table(title, rows) == [kind |-> "table", title |-> title, rows |-> rows]
Line(text) == [kind |-> "line", title |-> <<text>>, rows |-> <<>>]
SqlLine(sql) == [kind |-> "sql", title |-> <<>>, rows |-> <<sql>>]
Blank == Line("")

\* rows: total time (ticks), database queries time (ms), queries count
_table_response_timing(lineno, total_time, total_queries_time, queries_count) ==
    Table(<<" ", lineno, " time ">>, <<total_time, total_queries_time, queries_count>>)

SqlMaxLen == 200
TopN == 10

NoSqlQueries == <<"N", "o", " ", "s", "q", "l", " ", "q", "u", "e", "r", "i", "e", "s">>

\* query_rows without the placeholder row
query_rows_no_placeholder(qs) == [i \in 1 .. Len(qs) |-> Prefix(qs[i].sql, SqlMaxLen)]

\* one cell per row
query_rows(qs) ==
    IF qs = <<>> THEN <<NoSqlQueries>>
    ELSE [i \in 1 .. Len(qs) |-> Prefix(qs[i].sql, SqlMaxLen)]

query_title(lineno, qs) ==
    IF qs = <<>> THEN <<" queries ">>
    ELSE <<" ", lineno, " top ", ToString(Len(qs)), " queries ">>

_table_response_queries(lineno, qs) == Table(query_title(lineno, qs), query_rows(qs))

_single_line_response_queries(lineno, qs) ==
    <<[kind |-> "line", title |-> <<lineno, " ", ToString(Len(qs)), " queries:\n">>, rows |-> <<>>]>>
        \o [i \in 1 .. Len(qs) |-> SqlLine(qs[i].sql)]

\* the first of the three _convert_size calls that raises ends the call
_table_response_memory(lineno, memory_before, memory_after, memory_difference) ==
    LET b == _convert_size(memory_before)
        a == _convert_size(memory_after)
        d == _convert_size(memory_difference)
    IN  IF b.exc # NoExc THEN Raised(b.exc)
        ELSE IF a.exc # NoExc THEN Raised(a.exc)
        ELSE IF d.exc # NoExc THEN Raised(d.exc)
        ELSE Returned(Table(<<" ", lineno, " memory ">>, <<b.val, a.val, d.val>>))

\* compact_block without the [:10]
compact_block_uncapped(lineno, queries_list) ==
    <<_table_response_queries(lineno, queries_list)>>

\* full_block with the [:10] of the compact form
full_block_capped(lineno, queries_list) ==
    _single_line_response_queries(lineno, Prefix(queries_list, TopN))

\* what the query block of the report prints
compact_block(lineno, queries_list) ==
    <<_table_response_queries(lineno, Prefix(queries_list, TopN))>>

full_block(lineno, queries_list) == _single_line_response_queries(lineno, queries_list)

query_block(frame, queries_list) ==
    IF frame.full THEN full_block(frame.lineno, queries_list)
    ELSE compact_block(frame.lineno, queries_list)

\* everything after the wrapped work has returned, when settings.DEBUG was set:
\* what is printed, and the exception that ends the printing, if any
report(frame, log, memory_after, now) ==
    LET queries_list == sorted_by_time(build_queries_list(log))
        head == <<Blank,
                  _table_response_timing(frame.lineno, now - frame.time_start,
                                         total_queries_time_of(log), queries_count_of(log)),
                  Blank>>
                \o query_block(frame, queries_list)
                \o <<Blank>>
        mem == _table_response_memory(frame.lineno, frame.memory_before, memory_after,
                                      memory_after - frame.memory_before)
    IN  IF mem.exc = NoExc
        THEN [printed |-> head \o <<mem.val, Blank>>, exc |-> NoExc, queries_list |-> queries_list]
        ELSE [printed |-> head, exc |-> mem.exc, queries_list |-> queries_list]

-----------------------------------------------------------------------------
(* What the wrapped work and the host can do *)

ShortSql == <<"S", " ", "\"", "a", "\"", ",", "\"", "b", "\"">>
OtherSql == <<"U", " ", "t">>
LongSql == [i \in 1 .. LongLen |-> IF i = 2 THEN "," ELSE "x"]
EmptySql == <<>>

Fast == <<"0", ".", "0", "1", "0">>
Slow == <<"0", ".", "0", "5", "0">>

\* the entries the host can log: {"sql": ..., "time": ...}
QueryKinds ==
    { [sql |-> ShortSql, time |-> Fast],
      [sql |-> LongSql, time |-> Fast],
      [sql |-> OtherSql, time |-> Slow],
      [sql |-> EmptySql, time |-> Slow] }

\* the statements the work issues in a loop
LoopKinds == { q \in QueryKinds : q.sql = ShortSql }

\* the statements of the work under nested scopes
NestedKinds == { q \in QueryKinds : q.sql \in {ShortSql, EmptySql} }

\* what _get_process_memory() can return
MemoryValues == {1048576, 2097152}

\* the reading is taken only under settings.DEBUG; 0 stands for no reading
_get_process_memory == IF DEBUG THEN MemoryValues ELSE {0}

Arguments == {"request", "other request"}
Responses == {"OK", "None"}
Errors == {"DoesNotExist"}
Labels == {"", "ActiveCountries"}

-----------------------------------------------------------------------------
(* Entering a scope *)

\* reset_queries()
reset_queries(log) == <<>>

\* log_on_entry with the reset outside the test of settings.DEBUG
log_on_entry_always_reset(debug, log) == reset_queries(log)

\* the query log once the scope has been entered
log_on_entry(debug, log) == IF debug THEN reset_queries(log) ELSE log

\* lineno of the decorators: the wrapped function's name and first line
decorator_lineno(name, line) == name \o " [" \o ToString(line) \o "]"

\* lineno of DjangoProfiler: the label, if any, or the caller's name, and the caller's line
manager_lineno(label, name, line) ==
    IF label # "" THEN "ESC[1;31m" \o label \o "ESC[0m [" \o ToString(line) \o "]"
    ELSE name \o " [" \o ToString(line) \o "]"

\* the calls of the wrapped work a scope makes on entry
calls_on_entry(args) == <<args>>

\* the scope entered; log_before and issued record the query log at entry and the
\* queries the host has logged since
Frame(form, full, lineno, args, memory_before) ==
    [form |-> form, full |-> full, lineno |-> lineno, args |-> args,
     called |-> calls_on_entry(args),
     time_start |-> clock, memory_before |-> memory_before,
     log_before |-> queries, issued |-> <<>>]

Enter(frame, limit) ==
    /\ entered < limit
    /\ entered' = entered + 1
    /\ queries' = log_on_entry(DEBUG, queries)
    /\ stack' = Append(stack, frame)
    /\ UNCHANGED <<DEBUG, clock, out, last, size_vars>>

\* wrapper(*args, **kwargs) of django_profiler, up to the call of func
django_profiler_call(limit) ==
    \E args \in Arguments, m \in _get_process_memory :
        Enter(Frame("django_profiler", FALSE, decorator_lineno("get_countries", 29), args, m),
              limit)

\* wrapper(*args, **kwargs) of django_profiler_full, up to the call of func
django_profiler_full_call(limit) ==
    \E args \in Arguments, m \in _get_process_memory :
        Enter(Frame("django_profiler_full", TRUE, decorator_lineno("get_countries", 35), args, m),
              limit)

\* with DjangoProfiler(label, full): up to the yield
DjangoProfiler_enter(limit) ==
    \E label \in Labels, full \in BOOLEAN, m \in _get_process_memory :
        Enter(Frame("DjangoProfiler", full, manager_lineno(label, "get_countries", 43),
                    "block", m),
              limit)

-----------------------------------------------------------------------------
(* The wrapped work, and the code around the scopes *)

note_issued(frames, qs) ==
    [i \in 1 .. Len(frames) |-> [frames[i] EXCEPT !.issued = @ \o qs]]

\* the host logs the queries qs; the CPU clock moves on
Issue(qs) ==
    /\ queries' = queries \o qs
    /\ stack' = note_issued(stack, qs)
    /\ clock' = clock + 1
    /\ UNCHANGED <<DEBUG, out, last, entered, size_vars>>

\* one query
ExecuteQuery(kinds, limit) ==
    /\ clock < limit
    /\ \E q \in kinds : Issue(<<q>>)

\* a loop of queries
ExecuteLoop(kinds, limit) ==
    /\ clock < limit
    /\ Len(queries) < LoopQueries
    /\ \E q \in kinds : Issue([i \in 1 .. LoopQueries |-> q])

-----------------------------------------------------------------------------
(* Leaving a scope *)

Top == stack[Len(stack)]

Finished(frame, work, result, printed, queries_list, memory_after) ==
    [kind |-> "done", frame |-> frame, depth |-> Len(stack),
     work |-> work, result |-> result, printed |-> printed,
     queries_list |-> queries_list,
     log_after |-> queries, memory_after |-> memory_after]

Leave(frame, work, outcome, memory_after) ==
    /\ out' = out \o outcome.printed
    /\ last' = Finished(frame, work, outcome.result, outcome.printed, outcome.queries_list,
                        memory_after)
    /\ stack' = SubSeq(stack, 1, Len(stack) - 1)
    /\ UNCHANGED <<DEBUG, queries, clock, entered, size_vars>>

\* what the caller gets once the work has returned response
on_return(debug, frame, response, log, memory_after, now) ==
    IF debug
    THEN LET r == report(frame, log, memory_after, now)
         IN  [result |-> IF r.exc = NoExc THEN Returned(response) ELSE Raised(r.exc),
              printed |-> r.printed, queries_list |-> r.queries_list]
    ELSE [result |-> Returned(response), printed |-> <<>>, queries_list |-> <<>>]

\* on_raise as if the report were printed in a finally clause
on_raise_reports(debug, frame, error, log, now) ==
    [result |-> Raised(error),
     printed |-> IF debug THEN report(frame, log, frame.memory_before, now).printed ELSE <<>>,
     queries_list |-> <<>>]

\* what the caller gets once the work has raised error: nothing catches it
on_raise(debug, frame, error, log, now) ==
    [result |-> Raised(error), printed |-> <<>>, queries_list |-> <<>>]

\* func(*args, **kwargs) returns, or the block under the with statement ends
WorkReturns ==
    /\ stack # <<>>
    /\ \E response \in Responses, m \in _get_process_memory :
        /\ (Top.form = "DjangoProfiler") = (response = "None")
        /\ Leave(Top, Returned(response),
                 on_return(DEBUG, Top, response, queries, m, clock), m)

\* func(*args, **kwargs) raises, or the block under the with statement does
WorkRaises ==
    /\ stack # <<>>
    /\ \E error \in Errors :
        Leave(Top, Raised(error), on_raise(DEBUG, Top, error, queries, clock), 0)

-----------------------------------------------------------------------------
(* The profiler in its host *)

NoSize == [m |-> 0, e |-> 0]
Unset == [exc |-> "unset", val |-> ""]

Init ==
    /\ DEBUG \in BOOLEAN
    /\ queries = <<>>
    /\ clock = 0
    /\ stack = <<>>
    /\ out = <<>>
    /\ last = [kind |-> "none"]
    /\ entered = 0
    /\ size_in = NoSize
    /\ size_out = Unset

\* a scope has been left
Done == last.kind = "done"

\* one profiled call or block, from the code before its entry to its exit
Next ==
    \/ django_profiler_call(1)
    \/ django_profiler_full_call(1)
    \/ DjangoProfiler_enter(1)
    \/ ~Done /\ ExecuteQuery(QueryKinds, MaxSteps)
    \/ ~Done /\ ExecuteLoop(LoopKinds, MaxSteps)
    \/ WorkReturns
    \/ WorkRaises

Spec == Init /\ [][Next]_vars

\* scopes inside the work of other scopes, and one after another
NestedNext ==
    \/ django_profiler_call(MaxEntered)
    \/ django_profiler_full_call(MaxEntered)
    \/ DjangoProfiler_enter(MaxEntered)
    \/ ExecuteQuery(NestedKinds, MaxNestedSteps)
    \/ WorkReturns
    \/ WorkRaises

NestedSpec == Init /\ [][NestedNext]_vars

-----------------------------------------------------------------------------
(* _convert_size on its own *)

Mantissas == (-1 .. MaxMantissa) \cup {1048575, 1048576, 1048577, 1572864, 2097152}

SizeInputs == [m : Mantissas, e : 0 .. MaxExp]

SizeInit ==
    /\ size_in \in SizeInputs
    /\ size_out = Unset
    /\ DEBUG = TRUE
    /\ queries = <<>>
    /\ clock = 0
    /\ stack = <<>>
    /\ out = <<>>
    /\ last = [kind |-> "none"]
    /\ entered = 0

ConvertSize ==
    /\ size_out = Unset
    /\ size_out' = _convert_size_scaled(size_in.m, size_in.e)
    /\ UNCHANGED <<size_in, scope_vars>>

SizeNext == ConvertSize

SizeSpec == SizeInit /\ [][SizeNext]_vars

-----------------------------------------------------------------------------
(* Reading the report a finished scope printed *)

\* the scope ran under settings.DEBUG and its work returned
Measured == DEBUG /\ Done /\ last.work.exc = NoExc

Compact == Measured /\ ~last.frame.full
Full == Measured /\ last.frame.full

TimingTable == last.printed[2]
QueryTable == last.printed[4]

\* the SQL lines of the full form, in the order printed
SqlLines ==
    LET ls == SelectSeq(last.printed, LAMBDA b : b.kind = "sql")
    IN  [i \in 1 .. Len(ls) |-> ls[i].rows[1]]

\* the entries of the log read at exit that have SQL text
Kept == SelectSeq(last.log_after, has_sql)

\* the same, as the report words them
Captured == build_queries_list(last.log_after)

WithTime(qs, t) == SelectSeq(qs, LAMBDA q : q.time = t)

Times(qs) == { qs[i].time : i \in 1 .. Len(qs) }

\* the report is complete: timing, queries and memory, the memory table last but one
FullReport ==
    /\ Len(last.printed) >= 7
    /\ last.printed[Len(last.printed) - 1].kind = "table"
    /\ last.printed[Len(last.printed) - 1].title = <<" ", last.frame.lineno, " memory ">>

-----------------------------------------------------------------------------
(* C1 *)

\* C1: with settings.DEBUG false, in each of the three forms the work is called once
\* with the caller's arguments, the caller gets exactly what the work returned (or
\* raised), nothing is printed, and the query log at exit is the log at entry followed
\* by the queries of the work: it has not been reset.
C1_PassThrough ==
    ~DEBUG =>
        /\ out = <<>>
        /\ Done =>
            /\ last.frame.called = <<last.frame.args>>
            /\ last.result = last.work
            /\ last.printed = <<>>
            /\ last.log_after = last.frame.log_before \o last.frame.issued

C1_Witness ==
    /\ ~DEBUG
    /\ Done
    /\ last.frame.form = "django_profiler_full"
    /\ last.work = Returned("OK")
    /\ last.frame.log_before # <<>>
    /\ last.frame.issued # <<>>

-----------------------------------------------------------------------------
(* C2 *)

\* C2: with settings.DEBUG true, when the work raises, in each form the caller gets the
\* same error and the scope prints nothing, no timing, query or memory block.
C2_ErrorPropagates ==
    (DEBUG /\ Done /\ last.work.exc # NoExc) =>
        /\ last.result = last.work
        /\ last.printed = <<>>
        /\ out = <<>>

C2_Witness ==
    /\ DEBUG
    /\ Done
    /\ last.work = Raised("DoesNotExist")
    /\ last.frame.form = "DjangoProfiler"
    /\ Len(last.frame.issued) > TopN

-----------------------------------------------------------------------------
(* C3 *)

\* C3: with settings.DEBUG true, when the work returns, the report never raises: for
\* every pair of memory readings the scope prints its full report and the caller gets
\* the work's result.
C3_ReportNeverRaises ==
    Measured => (last.result = last.work /\ FullReport)

-----------------------------------------------------------------------------
(* C4 *)

\* C4: the queries a scope reports are in non-increasing order of duration, and the
\* queries of any one duration are in the order of the query log read at exit.
C4_SortedStable ==
    Measured =>
        LET qs == last.queries_list
            log == Captured
        IN  /\ \A i \in 1 .. Len(qs) - 1 : qs[i].time >= qs[i + 1].time
            /\ Len(qs) = Len(log)
            /\ \A t \in Times(log) : WithTime(qs, t) = WithTime(log, t)
            /\ Full => SqlLines = [i \in 1 .. Len(qs) |-> qs[i].sql]

\* a log out of order, with two different queries of one duration
C4_Witness ==
    /\ Measured
    /\ LET log == Captured
       IN  /\ Len(log) >= 3
           /\ last.queries_list # log
           /\ \E i \in 1 .. Len(log) - 1 :
                /\ log[i].time = log[i + 1].time
                /\ log[i].sql # log[i + 1].sql

-----------------------------------------------------------------------------
(* C5 *)

\* the rows of the compact query table: at most TopN, one per reported query from the
\* first on, each the first SqlMaxLen characters of the query's text, and no query
\* left out lasted longer than one shown
CompactRows ==
    LET qs == last.queries_list
        rows == QueryTable.rows
        k == Min(TopN, Len(qs))
    IN  /\ QueryTable.kind = "table"
        /\ Len(rows) = k
        /\ \A i \in 1 .. k :
            /\ Len(rows[i]) <= SqlMaxLen
            /\ rows[i] = Prefix(qs[i].sql, SqlMaxLen)
        /\ \A i \in 1 .. k : \A j \in k + 1 .. Len(qs) : qs[j].time <= qs[i].time

\* the count is one of the texts of the title
TitleCounts(title, n) == \E i \in 1 .. Len(title) : title[i] = ToString(n)

\* C5, as claimed: in the compact form with queries captured, the table has the rows
\* above and its title gives the number of queries captured.
C5_HeaderTotal ==
    (Compact /\ Kept # <<>>) =>
        /\ CompactRows
        /\ TitleCounts(QueryTable.title, Len(Kept))

\* C5, amended: in the compact form with queries captured, the table has the rows
\* above and its title gives the number of rows shown, which is at most TopN.
C5_HeaderRows ==
    (Compact /\ Kept # <<>>) =>
        /\ CompactRows
        /\ QueryTable.title =
             <<" ", last.frame.lineno, " top ", ToString(Len(QueryTable.rows)), " queries ">>
        /\ Len(QueryTable.rows) = Min(TopN, Len(Kept))

\* more queries than rows, and a text cut to SqlMaxLen among the rows
C5_Witness ==
    /\ Compact
    /\ Len(Kept) > TopN
    /\ \E i \in 1 .. TopN :
        /\ Len(last.queries_list[i].sql) > SqlMaxLen
        /\ Len(QueryTable.rows[i]) = SqlMaxLen

-----------------------------------------------------------------------------
(* C6 *)

\* the whole text of each log entry with SQL text, as the report words it
WholeTexts ==
    LET kept == SelectSeq(last.log_after, has_sql)
    IN  [i \in 1 .. Len(kept) |-> prettify_sql(kept[i]) \o <<"\n">>]

Count(xs, x) == Len(SelectSeq(xs, LAMBDA y : y = x))

\* C6: in the full form the report has one line for each query captured, however
\* many, and each line is the whole text of its query.
C6_FullLines ==
    Full =>
        LET lines == SqlLines
            whole == WholeTexts
        IN  /\ Len(lines) = Len(whole)
            /\ \A x \in { whole[i] : i \in 1 .. Len(whole) } :
                    Count(lines, x) = Count(whole, x)

C6_Witness ==
    /\ Full
    /\ Len(SqlLines) > TopN
    /\ \E i \in 1 .. Len(SqlLines) : Len(SqlLines[i]) > SqlMaxLen

-----------------------------------------------------------------------------
(* C7 *)

\* C7: the timing table's total query time is the sum of the durations of the queries
\* reported, and its query count is their number.
C7_TimingOverReported ==
    Measured =>
        /\ TimingTable.rows[2] = sum_times(last.queries_list)
        /\ TimingTable.rows[3] = Len(last.queries_list)

-----------------------------------------------------------------------------
(* C8 *)

-----------------------------------------------------------------------------
(* C9 *)

\* C9: a scope that ends normally under settings.DEBUG reports exactly the queries with
\* SQL text that the host logged between its entry and its exit, scopes entered inside
\* its work or not.
C9_OwnQueries ==
    Measured =>
        /\ Len(last.queries_list) = Len(SelectSeq(last.frame.issued, has_sql))
        /\ \A t \in Times(build_queries_list(last.frame.issued)) :
            WithTime(last.queries_list, t) = WithTime(build_queries_list(last.frame.issued), t)

-----------------------------------------------------------------------------
(* C10 *)

SizeDone == size_out # Unset

\* the unit index, clamped to the last unit
ClampedIndex(m, e) == Min(floor_log_1024(m) + e, Len(size_name) - 1)

\* C10: _convert_size(0) is "0B"; for n >= 1 the result is n / 1024^x rounded to two
\* decimals and the name of unit x, where x is floor(log_1024(n)) clamped to the last
\* unit, so that n >= 1024^9 is given in YB.
C10_ConvertSize ==
    SizeDone =>
        /\ size_in.m = 0 => size_out = Returned("0B")
        /\ size_in.m >= 1 =>
            /\ size_out.exc = NoExc
            /\ floor_log_1024(size_in.m) + size_in.e < Len(size_name) =>
                 size_out.val =
                    float_str(round_2(size_in.m, pow_1024(floor_log_1024(size_in.m))))
                        \o " " \o size_name[ClampedIndex(size_in.m, size_in.e) + 1]

====
